---- MODULE Spec2Model ----
(***************************************************************************)
(* Model of the ghcr clean-up action (src/src/main.ts, src/src/config.ts). *)
(* The remote store (package versions, tags, manifests) and the two        *)
(* clients (Registry, GithubPackageRepo) are state of the model; the       *)
(* CleanupAction fields are the variables of the same names.               *)
(***************************************************************************)
EXTENDS Integers, Sequences, FiniteSets, TLC

\* ---------------------------------------------------------------- bounds
NumDigests == 3      \* package versions present before the run: 1..NumDigests
MaxChildren == 2     \* longest child list of an index manifest
MaxTag == 3          \* ordinary tags v1..vMaxTag
MaxTime == 2         \* updated_at values 1..MaxTime
MaxKeep == 2         \* keep-n-tagged / keep-n-untagged values 0..MaxKeep
MaxIndexes == 2      \* index manifests in the store
MaxTagsInUse == 2    \* tags in use in a store that has referrer tags
MaxAdvance == 1      \* how far the clock moves on during one run
MaxTrims == 4        \* trims applied in a row to one state

\* ---------------------------------------------------------------- values
Missing == 0                               \* a digest that is never a package
Digests == 1..NumDigests
NewDigest(d) == NumDigests + d             \* digest of the emptied clone of d's manifest
AllDigests == 0..(2 * NumDigests)
NoDigest == 0 - 1
Unset == 0 - 100                           \* an option that was not given
NaN == 0 - 200

PlainTags == {<<"v", i>> : i \in 1..MaxTag}
ReferrerTag(d) == <<"sha256-", d>>         \* digest.replace('sha256:', 'sha256-')
Tags == PlainTags \cup {ReferrerTag(d) : d \in Digests}
NoTag == <<"", 0>>

\* the order in which a package lists its tags
TagList == [i \in 1..(MaxTag + NumDigests) |->
              IF i <= MaxTag THEN <<"v", i>> ELSE ReferrerTag(i - MaxTag)]

Leaf == [isIndex |-> FALSE, children |-> <<>>]
Index(cs) == [isIndex |-> TRUE, children |-> cs]

\* ---------------------------------------------------------------- helpers
RECURSIVE SetToSeq(_)
SetToSeq(S) ==
  IF S = {} THEN <<>>
  ELSE LET m == CHOOSE x \in S : \A y \in S : x <= y
       IN <<m>> \o SetToSeq(S \ {m})

Range(s) == {s[i] : i \in 1..Len(s)}
SeqDelete(s, x) == SelectSeq(s, LAMBDA y : y # x)
SeqAdd(s, x) == IF x \in Range(s) THEN s ELSE Append(s, x)

RECURSIVE SeqDeleteAll(_, _)
SeqDeleteAll(s, xs) ==
  IF xs = <<>> THEN s ELSE SeqDeleteAll(SeqDelete(s, Head(xs)), Tail(xs))

RECURSIVE SeqAddAll(_, _)
SeqAddAll(s, xs) ==
  IF xs = <<>> THEN s ELSE SeqAddAll(SeqAdd(s, Head(xs)), Tail(xs))

\* wildcard-match on the comma separated patterns the model uses
isTagMatch(pattern, tag) ==
  CASE pattern = "" -> FALSE
    [] pattern = "*" -> TRUE
    [] pattern = "v*" -> tag[1] = "v"
    [] pattern = "v1" -> tag = <<"v", 1>>
    [] pattern = "v2" -> tag = <<"v", 2>>
    [] pattern = "v3" -> tag = <<"v", 3>>
    [] pattern = "v1,v2" -> tag \in {<<"v", 1>>, <<"v", 2>>}
    [] pattern = "sha256-*" -> tag[1] = "sha256-"
    [] OTHER -> FALSE

\* ---------------------------------------------------------------- state
VARIABLES
  manifests,      \* registry content: digest -> manifest (content addressed)
  updated_at,     \* package metadata: digest -> timestamp
  now,            \* the clock: what Date.now() returns
  versions,       \* remote: digests that exist as package versions
  tagDigest,      \* remote: tag -> digest it points to (NoDigest: tag not in use)
  ghDigests,      \* GithubPackageRepo: digests of the last loadPackages
  ghTag,          \* GithubPackageRepo: tag -> digest of the last loadPackages
  tagCache,       \* Registry: cached tag -> digest
  config,
  excludeTags,
  filterSet,
  deleteSet,
  tagsInUse,
  digestUsedBy,
  deleted,
  numberMultiImagesDeleted,
  numberImagesDeleted,
  pc,             \* position in run()
  calls,          \* history: mutating calls and phases, in order
  inputs,         \* the action inputs getConfig read
  tagDigest0      \* history: tagDigest before the run

vars == <<manifests, updated_at, now, versions, tagDigest, ghDigests, ghTag, tagCache,
          config, excludeTags, filterSet, deleteSet, tagsInUse, digestUsedBy,
          deleted, numberMultiImagesDeleted, numberImagesDeleted, pc, calls, inputs,
          tagDigest0>>


\* ---------------------------------------------------------------- configuration
\* parseInt on the input strings the model uses
parseInt(str) ==
  CASE str = "0" -> 0
    [] str = "1" -> 1
    [] str = "2" -> 2
    [] str = "3" -> 3
    [] str = "-1" -> 0 - 1
    [] OTHER -> NaN

\* human-interval on the input strings the model uses, in units of updated_at
humanInterval(str) ==
  CASE str = "0 days" -> 0
    [] str = "1 day" -> 1
    [] str = "2 days" -> 2
    [] str = "3 days" -> 3
    [] OTHER -> NaN

\* core.getBooleanInput
getBooleanInput(str) == str = "true"

\* getConfig (the owner, repository, package and token checks left out);
\* error is the message of the Error it throws, "" when it returns
getConfig(in) ==
  LET deleteTags == IF in.tags # "" THEN in.tags ELSE in.deleteTags
      olderThan == IF in.olderThan # "" THEN humanInterval(in.olderThan) ELSE Unset
      nTagged == parseInt(in.keepNtagged)
      nUntagged == parseInt(in.keepNuntagged)
      keepNtagged == IF in.keepNtagged # "" THEN nTagged ELSE Unset
      keepNuntagged == IF in.keepNuntagged # "" THEN nUntagged ELSE Unset
      deleteUntagged ==
        IF in.deleteUntagged # "" THEN getBooleanInput(in.deleteUntagged)
        ELSE /\ in.tags = ""
             /\ in.deleteTags = ""
             /\ in.deleteGhostImages = ""
             /\ in.deletePartialImages = ""
             /\ in.keepNuntagged = ""
             /\ in.keepNtagged = ""
      error ==
        IF in.tags # "" /\ in.deleteTags # ""
          THEN "tags and delete-tags cant be used at the same time, use either one"
        ELSE IF in.keepNtagged # "" /\ nTagged = NaN THEN "keep-n-tagged is not number"
        ELSE IF in.keepNtagged # "" /\ nTagged < 0 THEN "keep-n-tagged is negative"
        ELSE IF in.keepNuntagged # "" /\ nUntagged = NaN THEN "keep-n-untagged is not number"
        ELSE IF in.keepNuntagged # "" /\ nUntagged < 0 THEN "keep-n-untagged is negative"
        ELSE IF keepNuntagged # Unset /\ keepNuntagged # 0 /\ in.deleteUntagged # ""
          THEN "delete-untagged and keep-n-untagged can not be set at the same time"
        ELSE ""
  IN [deleteTags |-> deleteTags,
      excludeTags |-> in.excludeTags,
      olderThan |-> olderThan,
      keepNtagged |-> keepNtagged,
      keepNuntagged |-> keepNuntagged,
      deleteUntagged |-> deleteUntagged,
      deleteGhostImages |-> IF in.deleteGhostImages # ""
                            THEN getBooleanInput(in.deleteGhostImages) ELSE FALSE,
      deletePartialImages |-> IF in.deletePartialImages # ""
                              THEN getBooleanInput(in.deletePartialImages) ELSE FALSE,
      dryRun |-> IF in.dryRun # "" THEN getBooleanInput(in.dryRun) ELSE FALSE,
      validate |-> IF in.validate # "" THEN getBooleanInput(in.validate) ELSE FALSE,
      error |-> error]

\* the inputs as the runner passes them when the workflow sets no clean-up
\* option: empty, or the default action.yml declares
noCleanupOption(in) ==
  /\ in.tags = ""
  /\ in.deleteTags = ""
  /\ in.keepNtagged = ""
  /\ in.keepNuntagged = ""
  /\ in.deleteUntagged = ""
  /\ in.deleteGhostImages = "false"
  /\ in.deletePartialImages = "false"

\* delete-untagged and a keep-n-untagged count are both supplied
untaggedOptionsClash(in) ==
  /\ in.deleteUntagged # ""
  /\ in.keepNuntagged # ""
  /\ parseInt(in.keepNuntagged) # NaN
  /\ parseInt(in.keepNuntagged) >= 0

\* ---------------------------------------------------------------- run(): phases
\* variant: keep-n-tagged before tag deletion
PhasesKeepFirst == <<"keepNtagged", "deleteByTag", "partialGhost", "untagged",
                     "doDelete", "validate", "done">>

Phases == <<"deleteByTag", "partialGhost", "keepNtagged", "untagged", "doDelete",
            "validate", "done">>

\* the conditions of the if statements of run()
phaseRuns(p) ==
  CASE p = "deleteByTag" -> config.deleteTags # ""
    [] p = "partialGhost" -> config.deletePartialImages \/ config.deleteGhostImages
    [] p = "keepNtagged" -> config.keepNtagged # Unset
    [] p = "untagged" -> config.keepNuntagged # Unset \/ config.deleteUntagged
    [] p = "validate" -> config.validate
    [] OTHER -> TRUE

\* the first phase from position i on that run() executes
RECURSIVE phaseFrom(_)
phaseFrom(i) == IF phaseRuns(Phases[i]) THEN Phases[i] ELSE phaseFrom(i + 1)

index(p) == CHOOSE i \in 1..Len(Phases) : Phases[i] = p
phaseAfter(p) == phaseFrom(index(p) + 1)

\* the conditions of run() on the clean-up options
runsPartialImages == config.deletePartialImages
\* variant: delete-ghost-images tested with an if of its own
runsGhostImagesAlways == config.deleteGhostImages
runsGhostImages == ~config.deletePartialImages /\ config.deleteGhostImages
runsKeepNuntagged == config.keepNuntagged # Unset
\* variant: delete-untagged tested with an if of its own, not in the else branch
runsDeleteUntaggedAlways == config.deleteUntagged
runsDeleteUntagged == config.keepNuntagged = Unset /\ config.deleteUntagged

\* the keep-n options of the configuration
keepNtaggedCount == config.keepNtagged
keepNuntaggedCount == config.keepNuntagged

\* the flags of the configuration
validateFlag == config.validate
dryRunFlag == config.dryRun

\* the mutable state as one record, threaded through the handlers
State ==
  [versions |-> versions, tagDigest |-> tagDigest, ghDigests |-> ghDigests,
   ghTag |-> ghTag, tagCache |-> tagCache, excludeTags |-> excludeTags,
   filterSet |-> filterSet, deleteSet |-> deleteSet, tagsInUse |-> tagsInUse,
   digestUsedBy |-> digestUsedBy, deleted |-> deleted,
   numberMultiImagesDeleted |-> numberMultiImagesDeleted,
   numberImagesDeleted |-> numberImagesDeleted, calls |-> calls,
   dryRun |-> config.dryRun, now |-> now]

Apply(s) ==
  /\ versions' = s.versions
  /\ tagDigest' = s.tagDigest
  /\ ghDigests' = s.ghDigests
  /\ ghTag' = s.ghTag
  /\ tagCache' = s.tagCache
  /\ excludeTags' = s.excludeTags
  /\ filterSet' = s.filterSet
  /\ deleteSet' = s.deleteSet
  /\ tagsInUse' = s.tagsInUse
  /\ digestUsedBy' = s.digestUsedBy
  /\ deleted' = s.deleted
  /\ numberMultiImagesDeleted' = s.numberMultiImagesDeleted
  /\ numberImagesDeleted' = s.numberImagesDeleted
  /\ calls' = s.calls
  /\ now' = s.now

Call(op, d, t) == [op |-> op, digest |-> d, tag |-> t]
Log(s, op, d, t) == [s EXCEPT !.calls = Append(@, Call(op, d, t))]

\* ---------------------------------------------------------------- collaborators
\* Registry.getManifestByDigest: manifests are content addressed; the manifest
\* of NewDigest(d) is d's manifest with its child (or layer) list emptied
getManifestByDigest(d) ==
  IF d \in Digests THEN manifests[d]
  ELSE IF d > NumDigests THEN
    (IF manifests[d - NumDigests].isIndex THEN Index(<<>>) ELSE Leaf)
  ELSE Leaf

\* Registry.getTagDigest: the cached digest of the tag, else the remote one
getTagDigest(s, tag) ==
  IF s.tagCache[tag] # NoDigest THEN s.tagCache[tag] ELSE s.tagDigest[tag]

\* the cache after Registry.getTagDigest / getManifestByTag
cacheTag(s, tag) == [s EXCEPT !.tagCache[tag] = getTagDigest(s, tag)]

\* Registry.getManifestByTag
getManifestByTag(s, tag) == getManifestByDigest(getTagDigest(s, tag))

\* Registry.deleteTag: forget the cached digest of the tag
deleteTag(s, tag) == [s EXCEPT !.tagCache[tag] = NoDigest]

\* Registry.putManifest: the tag now points to the pushed manifest's digest;
\* with dry-run nothing is pushed
putManifest(s, tag, d) ==
  IF s.dryRun THEN Log(s, "putManifest", d, tag)
  ELSE Log([s EXCEPT !.versions = @ \cup {d}, !.tagDigest[tag] = d],
           "putManifest", d, tag)

\* GithubPackageRepo.loadPackages: take the listing of the remote
loadPackages(s) == [s EXCEPT !.ghDigests = s.versions, !.ghTag = s.tagDigest]

\* GithubPackageRepo.getDigests, in listing order
getDigests(s) == SetToSeq(s.ghDigests)

\* GithubPackageRepo.getTags
getTags(s) == {t \in Tags : s.ghTag[t] # NoDigest}

\* GithubPackageRepo.getDigestByTag
getDigestByTag(s, tag) == s.ghTag[tag]

\* GithubPackageRepo.getIdByDigest(d) is defined
hasId(s, d) == d \in s.ghDigests

\* ghPackage.metadata.container.tags of the loaded package d
tagsOf(s, d) == SelectSeq(TagList, LAMBDA t : s.ghTag[t] = d)

\* ghPackage.updated_at (a version pushed during the run is newer than all)
updatedAt(d) == IF d \in Digests THEN updated_at[d] ELSE MaxTime + 1

\* GithubPackageRepo.deletePackageVersion: the version and its tags disappear
\* from the remote; the loaded listing is not touched; with dry-run nothing is
\* removed
deletePackageVersion(s, d) ==
  IF s.dryRun THEN Log(s, "deletePackageVersion", d, NoTag)
  ELSE Log([s EXCEPT !.versions = @ \ {d},
                     !.tagDigest = [t \in Tags |-> IF @[t] = d THEN NoDigest ELSE @[t]]],
           "deletePackageVersion", d, NoTag)

\* ---------------------------------------------------------------- reload
\* variant: the map gets an entry for every listed child, known or not
loadDigestUsedByMapAnyChild(s) ==
  LET digests == s.ghDigests
      listedBy(c) == {p \in digests : /\ getManifestByDigest(p).isIndex
                                      /\ c \in Range(getManifestByDigest(p).children)}
      keys == {c \in AllDigests : listedBy(c) # {}}
  IN [s EXCEPT !.digestUsedBy = [c \in keys |-> listedBy(c)]]

\* CleanupAction.loadDigestUsedByMap
loadDigestUsedByMap(s) ==
  LET digests == s.ghDigests
      parentsOf(c) == {p \in digests : /\ getManifestByDigest(p).isIndex
                                       /\ c \in Range(getManifestByDigest(p).children)}
      keys == {c \in digests : parentsOf(c) # {}}
  IN [s EXCEPT !.digestUsedBy = [c \in keys |-> parentsOf(c)]]

\* variant: one iteration of trimChildren that trims index children only
trimChildrenOfIndex(s, digest) ==
  LET manifest == getManifestByDigest(digest)
  IN IF manifest.isIndex
     THEN [s EXCEPT !.filterSet = SeqDeleteAll(@, manifest.children)]
     ELSE s

\* one iteration of the loop of trimChildren
trimChildrenOf(s, digest) ==
  LET manifest == getManifestByDigest(digest)
      s1 == IF manifest.isIndex
            THEN [s EXCEPT !.filterSet = SeqDeleteAll(@, manifest.children)]
            ELSE s
      referrerTag == ReferrerTag(digest)
  IN IF referrerTag \in s1.tagsInUse /\ referrerTag \notin s1.excludeTags
     THEN LET referrerDigest == getTagDigest(s1, referrerTag)
              s2 == cacheTag(s1, referrerTag)
              s3 == [s2 EXCEPT !.filterSet = SeqDelete(@, referrerDigest)]
              referrerManifest == getManifestByTag(s3, referrerTag)
          IN IF referrerManifest.isIndex
             THEN [s3 EXCEPT !.filterSet = SeqDeleteAll(@, referrerManifest.children)]
             ELSE s3
     ELSE s1

RECURSIVE trimChildrenLoop(_, _)
trimChildrenLoop(s, digests) ==
  IF digests = <<>> THEN s
  ELSE trimChildrenLoop(trimChildrenOf(s, Head(digests)), Tail(digests))

\* CleanupAction.trimChildren
trimChildren(s) == trimChildrenLoop(s, getDigests(s))

\* variant: the exclude-tags step recording the tags and leaving filterSet alone
trimExcludedRecording(s) ==
  IF config.excludeTags # ""
  THEN [s EXCEPT !.excludeTags = {t \in s.tagsInUse : isTagMatch(config.excludeTags, t)}]
  ELSE [s EXCEPT !.excludeTags = {}]

\* reload(): the exclude-tags step
trimExcluded(s) ==
  IF config.excludeTags # ""
  THEN LET matched == {t \in s.tagsInUse : isTagMatch(config.excludeTags, t)}
           digests == {getDigestByTag(s, t) : t \in matched}
       IN [s EXCEPT !.filterSet = SelectSeq(@, LAMBDA d : d \notin digests),
                    !.excludeTags = matched]
  ELSE [s EXCEPT !.excludeTags = {}]

\* the clock when the run starts, and whether reload reads the clock at all
Now == MaxTime + 1
readsClock == config.olderThan # Unset /\ config.olderThan # NaN /\ config.olderThan # 0

\* variant: the older-than step keeping a digest updated exactly at the cut-off
trimNewerStrict(s) ==
  IF readsClock
  THEN LET cutOff == s.now - config.olderThan
       IN [s EXCEPT !.filterSet =
             SelectSeq(@, LAMBDA d : ~(updatedAt(d) # 0 /\ updatedAt(d) > cutOff))]
  ELSE s

\* reload(): the older-than step
trimNewer(s) ==
  IF readsClock
  THEN LET cutOff == s.now - config.olderThan
       IN [s EXCEPT !.filterSet =
             SelectSeq(@, LAMBDA d : ~(updatedAt(d) # 0 /\ updatedAt(d) >= cutOff))]
  ELSE s

\* CleanupAction.reload
reload(s) ==
  LET s1 == loadPackages([s EXCEPT !.deleteSet = <<>>, !.deleted = {}])
      s2 == [s1 EXCEPT !.filterSet = getDigests(s1), !.tagsInUse = getTags(s1)]
      s3 == loadDigestUsedByMap(s2)
      s4 == trimChildren(s3)
      s5 == trimExcluded(s4)
  IN trimNewer(Log(s5, "reload", NoDigest, NoTag))

\* ---------------------------------------------------------------- deletion
\* variant: the child loop without the test on the deleted set
deleteChildUnchecked(s, parent, child) ==
  IF child \in s.ghDigests /\ child \in DOMAIN s.digestUsedBy
  THEN LET parents == s.digestUsedBy[child]
       IN IF Cardinality(parents) = 1 /\ parent \in parents
          THEN LET s1 == deletePackageVersion(s, child)
               IN [s1 EXCEPT !.deleted = @ \cup {child},
                             !.numberImagesDeleted = @ + 1,
                             !.digestUsedBy = [c \in DOMAIN @ \ {child} |-> @[c]]]
          ELSE [s EXCEPT !.digestUsedBy[child] = @ \ {parent}]
  ELSE s

\* variant: a known child without an entry in digestUsedBy is deleted
deleteChildUnmapped(s, parent, child) ==
  IF child \in s.ghDigests /\ child \notin s.deleted
  THEN IF child \in DOMAIN s.digestUsedBy
          /\ ~(Cardinality(s.digestUsedBy[child]) = 1 /\ parent \in s.digestUsedBy[child])
       THEN [s EXCEPT !.digestUsedBy[child] = @ \ {parent}]
       ELSE LET s1 == deletePackageVersion(s, child)
            IN [s1 EXCEPT !.deleted = @ \cup {child},
                          !.numberImagesDeleted = @ + 1,
                          !.digestUsedBy = [c \in DOMAIN @ \ {child} |-> @[c]]]
  ELSE s

\* deleteImage: the body of the loop over manifest.manifests, for one child
deleteChild(s, parent, child) ==
  IF child \in s.ghDigests
  THEN IF child \notin s.deleted
       THEN IF child \in DOMAIN s.digestUsedBy
            THEN LET parents == s.digestUsedBy[child]
                 IN IF Cardinality(parents) = 1 /\ parent \in parents
                    THEN LET s1 == deletePackageVersion(s, child)
                         IN [s1 EXCEPT !.deleted = @ \cup {child},
                                       !.numberImagesDeleted = @ + 1,
                                       !.digestUsedBy =
                                          [c \in DOMAIN @ \ {child} |-> @[c]]]
                    ELSE [s EXCEPT !.digestUsedBy[child] = @ \ {parent}]
            ELSE s
       ELSE s
  ELSE s

RECURSIVE deleteChildren(_, _, _)
deleteChildren(s, parent, children) ==
  IF children = <<>> THEN s
  ELSE deleteChildren(deleteChild(s, parent, Head(children)), parent, Tail(children))

\* CleanupAction.deleteImage
RECURSIVE deleteImage(_, _)
deleteImage(s, name) ==
  IF name \notin s.deleted
  THEN LET manifest == getManifestByDigest(name)
           s1 == deletePackageVersion(s, name)
           s2 == [s1 EXCEPT !.deleted = @ \cup {name}, !.numberImagesDeleted = @ + 1]
           s3 == IF manifest.isIndex
                 THEN deleteChildren(
                        [s2 EXCEPT !.numberMultiImagesDeleted = @ + 1],
                        name, manifest.children)
                 ELSE s2
           attestationTag == ReferrerTag(name)
       IN IF attestationTag \in s3.tagsInUse /\ attestationTag \notin s3.excludeTags
          THEN deleteImage(cacheTag(s3, attestationTag), getTagDigest(s3, attestationTag))
          ELSE s3
  ELSE s

RECURSIVE deleteImages(_, _)
deleteImages(s, digests) ==
  IF digests = <<>> THEN s
  ELSE deleteImages(deleteImage(s, Head(digests)), Tail(digests))

\* CleanupAction.doDelete
doDelete(s) ==
  IF Len(s.deleteSet) > 0 THEN deleteImages(s, s.deleteSet) ELSE s

\* ---------------------------------------------------------------- classifiers
\* variant: the picked digests are counted and marked as deleted when moved
moveToDeleteSetMarking(s, picked) ==
  [s EXCEPT !.filterSet = SelectSeq(@, LAMBDA d : d \notin picked),
            !.deleteSet = SeqAddAll(@, SelectSeq(s.filterSet, LAMBDA d : d \in picked)),
            !.deleted = @ \cup (picked \cap Range(s.filterSet)),
            !.numberImagesDeleted = @ + Cardinality(picked \cap Range(s.filterSet))]

\* move the picked digests of filterSet to deleteSet, in filterSet order
moveToDeleteSet(s, picked) ==
  [s EXCEPT !.filterSet = SelectSeq(@, LAMBDA d : d \notin picked),
            !.deleteSet = SeqAddAll(@, SelectSeq(s.filterSet, LAMBDA d : d \in picked))]

\* number of child descriptors of the manifest that are no known package
missingChildren(s, manifest) ==
  Cardinality({i \in 1..Len(manifest.children) : ~hasId(s, manifest.children[i])})

\* variant: an index counts as a ghost as soon as one child is missing
isGhostImageAnyMissing(s, digest) ==
  LET manfiest == getManifestByDigest(digest)
  IN manfiest.isIndex /\ missingChildren(s, manfiest) > 0

\* variant: an index without child descriptors is no ghost
isGhostImageNonEmpty(s, digest) ==
  LET manfiest == getManifestByDigest(digest)
  IN /\ manfiest.isIndex
     /\ Len(manfiest.children) > 0
     /\ missingChildren(s, manfiest) = Len(manfiest.children)

\* deleteGhostImages: the test on one digest of filterSet
isGhostImage(s, digest) ==
  LET manfiest == getManifestByDigest(digest)
  IN manfiest.isIndex /\ missingChildren(s, manfiest) = Len(manfiest.children)

\* CleanupAction.deleteGhostImages
deleteGhostImages(s) == moveToDeleteSet(s, {d \in Range(s.filterSet) : isGhostImage(s, d)})

\* deletePartialImages: the test on one digest of filterSet
isPartialImage(s, digest) ==
  LET manfiest == getManifestByDigest(digest)
  IN manfiest.isIndex /\ \E i \in 1..Len(manfiest.children) :
                            ~hasId(s, manfiest.children[i])

\* CleanupAction.deletePartialImages
deletePartialImages(s) == moveToDeleteSet(s, {d \in Range(s.filterSet) : isPartialImage(s, d)})

\* Array.prototype.sort with (a, b) => Date.parse(b.updated_at) - Date.parse(a.updated_at):
\* stable, newest first
RECURSIVE insertSorted(_, _)
insertSorted(sorted, x) ==
  IF sorted = <<>> THEN <<x>>
  ELSE IF updatedAt(Head(sorted)) >= updatedAt(x)
       THEN <<Head(sorted)>> \o insertSorted(Tail(sorted), x)
       ELSE <<x>> \o sorted

RECURSIVE sortDescending(_)
sortDescending(s) ==
  IF s = <<>> THEN <<>>
  ELSE insertSorted(sortDescending(SubSeq(s, 1, Len(s) - 1)), s[Len(s)])

\* Array.prototype.splice(n): the elements from index n on
splice(s, n) == SubSeq(s, n + 1, Len(s))

\* CleanupAction.keepNuntagged
keepNuntagged(s) ==
  IF config.keepNuntagged # Unset
  THEN LET unTaggedPackages ==
             sortDescending(SelectSeq(s.filterSet, LAMBDA d : Len(tagsOf(s, d)) = 0))
       IN IF Len(unTaggedPackages) > config.keepNuntagged
          THEN LET deletePackages == splice(unTaggedPackages, config.keepNuntagged)
               IN [s EXCEPT !.deleteSet = SeqAddAll(@, deletePackages),
                            !.filterSet = SeqDeleteAll(@, deletePackages)]
          ELSE s
  ELSE s

\* variant: keepNtagged without the sort, trimming in filterSet order
keepNtaggedUnsorted(s) ==
  IF config.keepNtagged # Unset
  THEN LET taggedPackages == SelectSeq(s.filterSet, LAMBDA d : Len(tagsOf(s, d)) > 0)
       IN IF Len(taggedPackages) > config.keepNtagged
          THEN LET deletePackages == splice(taggedPackages, config.keepNtagged)
               IN [s EXCEPT !.deleteSet = SeqAddAll(@, deletePackages),
                            !.filterSet = SeqDeleteAll(@, deletePackages)]
          ELSE s
  ELSE s

\* CleanupAction.keepNtagged
keepNtagged(s) ==
  IF config.keepNtagged # Unset
  THEN LET taggedPackages ==
             sortDescending(SelectSeq(s.filterSet, LAMBDA d : Len(tagsOf(s, d)) > 0))
       IN IF Len(taggedPackages) > config.keepNtagged
          THEN LET deletePackages == splice(taggedPackages, config.keepNtagged)
               IN [s EXCEPT !.deleteSet = SeqAddAll(@, deletePackages),
                            !.filterSet = SeqDeleteAll(@, deletePackages)]
          ELSE s
  ELSE s

\* CleanupAction.deleteUntagged
deleteUntagged(s) == moveToDeleteSet(s, {d \in Range(s.filterSet) : Len(tagsOf(s, d)) = 0})

\* ---------------------------------------------------------------- tag deletion
\* deleteByTag: the tags of the filterSet packages that match delete-tags
RECURSIVE matchTags(_, _)
matchTags(s, digests) ==
  IF digests = <<>> THEN <<>>
  ELSE SelectSeq(tagsOf(s, Head(digests)), LAMBDA t : isTagMatch(config.deleteTags, t))
       \o matchTags(s, Tail(digests))

\* deleteByTag works on the action state and its two local tag sets
Scan(s, u, t) == [s |-> s, untaggingTags |-> u, standardTags |-> t]

\* deleteByTag: the pre scan of one matched tag
preScanTag(w, tag) ==
  IF tag \notin w.s.excludeTags
  THEN LET manifestDigest == getTagDigest(w.s, tag)
           s1 == cacheTag(w.s, tag)
           n == Len(tagsOf(s1, manifestDigest))
       IN IF n > 1 THEN Scan(s1, SeqAdd(w.untaggingTags, tag), w.standardTags)
          ELSE IF n = 1 THEN Scan(s1, w.untaggingTags, SeqAdd(w.standardTags, tag))
          ELSE Scan(s1, w.untaggingTags, w.standardTags)
  ELSE w

RECURSIVE preScan(_, _)
preScan(w, tags) ==
  IF tags = <<>> THEN w ELSE preScan(preScanTag(w, Head(tags)), Tail(tags))

\* variant: untagging that does not drop the cached digest of the tag
untagTagStaleCache(w, tag) ==
  LET manifestDigest == getTagDigest(w.s, tag)
      s1 == cacheTag(w.s, tag)
  IN IF Len(tagsOf(s1, manifestDigest)) = 1
     THEN Scan(s1, w.untaggingTags, SeqAdd(w.standardTags, tag))
     ELSE LET s2 == putManifest(s1, tag, NewDigest(manifestDigest))
              s3 == loadPackages(s2)
              untaggedDigest == getTagDigest(s3, tag)
              s5 == IF hasId(s3, untaggedDigest)
                    THEN [deletePackageVersion(s3, untaggedDigest)
                            EXCEPT !.numberImagesDeleted = @ + 1]
                    ELSE s3
          IN Scan(s5, w.untaggingTags, w.standardTags)

\* variant: untagging without the recheck that defers the last tag of a digest
untagTagNoRecheck(w, tag) ==
  LET manifestDigest == getTagDigest(w.s, tag)
      s1 == cacheTag(w.s, tag)
      s2 == putManifest(s1, tag, NewDigest(manifestDigest))
      s3 == loadPackages(deleteTag(s2, tag))
      untaggedDigest == getTagDigest(s3, tag)
      s4 == cacheTag(s3, tag)
      s5 == IF hasId(s4, untaggedDigest)
            THEN [deletePackageVersion(s4, untaggedDigest)
                    EXCEPT !.numberImagesDeleted = @ + 1]
            ELSE s4
  IN Scan(s5, w.untaggingTags, w.standardTags)

\* deleteByTag: untag one tag by pointing it to an emptied manifest and
\* deleting the package version that results
untagTag(w, tag) ==
  LET manifestDigest == getTagDigest(w.s, tag)
      s1 == cacheTag(w.s, tag)
  IN IF Len(tagsOf(s1, manifestDigest)) = 1
     THEN Scan(s1, w.untaggingTags, SeqAdd(w.standardTags, tag))
     ELSE LET s2 == putManifest(s1, tag, NewDigest(manifestDigest))
              s3 == loadPackages(deleteTag(s2, tag))
              untaggedDigest == getTagDigest(s3, tag)
              s4 == cacheTag(s3, tag)
              s5 == IF hasId(s4, untaggedDigest)
                    THEN [deletePackageVersion(s4, untaggedDigest)
                            EXCEPT !.numberImagesDeleted = @ + 1]
                    ELSE s4
          IN Scan(s5, w.untaggingTags, w.standardTags)

RECURSIVE untagTags(_, _)
untagTags(w, tags) ==
  IF tags = <<>> THEN w ELSE untagTags(untagTag(w, Head(tags)), Tail(tags))

\* variant: the standard deletion of one tag without filterSet.delete
standardTagKeepsFilter(s, tag) ==
  LET manifestDigest == getTagDigest(s, tag)
      s1 == cacheTag(s, tag)
  IN Log([s1 EXCEPT !.deleteSet = SeqAdd(@, manifestDigest)],
         "deleteSet.add", manifestDigest, tag)

\* deleteByTag: the standard deletion of one tag
standardTag(s, tag) ==
  LET manifestDigest == getTagDigest(s, tag)
      s1 == cacheTag(s, tag)
  IN Log([s1 EXCEPT !.deleteSet = SeqAdd(@, manifestDigest),
                    !.filterSet = SeqDelete(@, manifestDigest)],
         "deleteSet.add", manifestDigest, tag)

RECURSIVE standardTagsLoop(_, _)
standardTagsLoop(s, tags) ==
  IF tags = <<>> THEN s ELSE standardTagsLoop(standardTag(s, Head(tags)), Tail(tags))

\* variant: deleteByTag going on to the standard case without a reload
deleteByTagNoReload(s) ==
  IF config.deleteTags # ""
  THEN LET matched == matchTags(s, s.filterSet)
       IN IF Len(matched) > 0
          THEN LET w1 == preScan(Scan(s, <<>>, <<>>), matched)
                   w2 == IF Len(w1.untaggingTags) > 0
                         THEN untagTags(w1, w1.untaggingTags)
                         ELSE w1
               IN standardTagsLoop(w2.s, w2.standardTags)
          ELSE s
  ELSE s

\* variant: deleteByTag building its match list from every loaded digest
deleteByTagAnyDigest(s) ==
  IF config.deleteTags # ""
  THEN LET matched == matchTags(s, getDigests(s))
       IN IF Len(matched) > 0
          THEN LET w1 == preScan(Scan(s, <<>>, <<>>), matched)
                   w2 == IF Len(w1.untaggingTags) > 0
                         THEN untagTags(w1, w1.untaggingTags)
                         ELSE w1
                   s3 == IF Len(w1.untaggingTags) > 0 THEN reload(w2.s) ELSE w2.s
               IN standardTagsLoop(s3, w2.standardTags)
          ELSE s
  ELSE s

\* CleanupAction.deleteByTag
deleteByTag(s) ==
  IF config.deleteTags # ""
  THEN LET matched == matchTags(s, s.filterSet)
       IN IF Len(matched) > 0
          THEN LET w1 == preScan(Scan(s, <<>>, <<>>), matched)
                   w2 == IF Len(w1.untaggingTags) > 0
                         THEN untagTags(w1, w1.untaggingTags)
                         ELSE w1
                   s3 == IF Len(w1.untaggingTags) > 0 THEN reload(w2.s) ELSE w2.s
               IN standardTagsLoop(s3, w2.standardTags)
          ELSE s
  ELSE s

\* ---------------------------------------------------------------- validate
\* validate: the warnings for the children of one digest
RECURSIVE validateChildren(_, _)
validateChildren(s, children) ==
  IF children = <<>> THEN s
  ELSE validateChildren(
         IF ~hasId(s, Head(children))
         THEN Log(s, "warning", Head(children), NoTag)
         ELSE s,
         Tail(children))

RECURSIVE validateDigests(_, _, _)
validateDigests(s, processedManifests, digests) ==
  IF digests = <<>> THEN s
  ELSE LET digest == Head(digests)
           manifest == getManifestByDigest(digest)
       IN IF digest \notin processedManifests /\ manifest.isIndex
          THEN validateDigests(validateChildren(s, manifest.children),
                               processedManifests \cup Range(manifest.children),
                               Tail(digests))
          ELSE validateDigests(s, processedManifests, Tail(digests))

RECURSIVE validateTags(_, _)
validateTags(s, tags) ==
  IF tags = <<>> THEN s
  ELSE LET tag == Head(tags)
       IN validateTags(
            IF tag[1] = "sha256-" /\ ~hasId(s, tag[2])
            THEN Log(s, "warning", NoDigest, tag)
            ELSE s,
            Tail(tags))

\* CleanupAction.validate
validate(s) ==
  validateTags(validateDigests(s, {}, getDigests(s)),
               SelectSeq(TagList, LAMBDA t : t \in s.tagsInUse))

\* ---------------------------------------------------------------- run(): classifiers
\* CleanupAction.run up to doDelete: the classifiers the configuration enables
classify(s) ==
  LET s1 == IF config.deleteTags # "" THEN deleteByTag(s) ELSE s
      s2 == IF config.deletePartialImages THEN deletePartialImages(s1)
            ELSE IF config.deleteGhostImages THEN deleteGhostImages(s1)
            ELSE s1
      s3 == IF config.keepNtagged # Unset THEN keepNtagged(s2) ELSE s2
  IN IF config.keepNuntagged # Unset THEN keepNuntagged(s3)
     ELSE IF config.deleteUntagged THEN deleteUntagged(s3)
     ELSE s3

\* ---------------------------------------------------------------- initial states
\* an index lists digests that exist before it does (a manifest's digest is the
\* hash of its content), or digests that are no package
ChildLists(d) ==
  UNION {[1..n -> {Missing} \cup {c \in Digests : c > d}] : n \in 0..MaxChildren}
ManifestsFor(d) == {Leaf} \cup {Index(cs) : cs \in ChildLists(d)}
RECURSIVE ManifestMapsTo(_)
ManifestMapsTo(n) ==
  IF n = 0 THEN {<<>>}
  ELSE {Append(m, x) : m \in ManifestMapsTo(n - 1), x \in ManifestsFor(n)}
ManifestMaps == ManifestMapsTo(NumDigests)

Indexes(m) == {d \in Digests : m[d].isIndex}
NoMissing(m) == \A d \in Digests : Missing \notin Range(m[d].children)

TagsUsed(t) == {x \in Tags : t[x] # NoDigest}
\* a tag points to one digest or is not in use; the referrer tag of a digest
\* points to another digest
TagMaps ==
  {t \in {f : f \in [Tags -> Digests \cup {NoDigest}]} :
     \A d \in Digests : t[ReferrerTag(d)] # d}
PlainTagMaps == {t \in TagMaps : TagsUsed(t) \subseteq PlainTags}

TimeMaps == [Digests -> 1..MaxTime]
SameTime == [d \in Digests |-> 1]

numeral(n) == CASE n = 0 -> "0" [] n = 1 -> "1" [] n = 2 -> "2" [] n = 3 -> "3"
KeepValues == {""} \cup {numeral(n) : n \in 0..MaxKeep}

NoInputs ==
  [tags |-> "", deleteTags |-> "", excludeTags |-> "", olderThan |-> "",
   keepNtagged |-> "", keepNuntagged |-> "", deleteUntagged |-> "",
   deleteGhostImages |-> "false", deletePartialImages |-> "false",
   dryRun |-> "", validate |-> ""]

\* the state after new CleanupAction() for a store and inputs
InitWith(m, t, u, in) ==
  /\ manifests = m
  /\ updated_at = u
  /\ now = Now
  /\ versions = Digests
  /\ tagDigest = t
  /\ tagDigest0 = t
  /\ ghDigests = {}
  /\ ghTag = [x \in Tags |-> NoDigest]
  /\ tagCache = [x \in Tags |-> NoDigest]
  /\ inputs = in
  /\ config = getConfig(in)
  /\ excludeTags = {}
  /\ filterSet = <<>>
  /\ deleteSet = <<>>
  /\ tagsInUse = {}
  /\ digestUsedBy = <<>>
  /\ deleted = {}
  /\ numberMultiImagesDeleted = 0
  /\ numberImagesDeleted = 0
  /\ pc = IF getConfig(in).error = "" THEN "reload" ELSE "failed"
  /\ calls = <<>>

\* ---------------------------------------------------------------- run()
Step(p, op, s) ==
  /\ pc = p
  /\ Apply(s)
  /\ pc' = phaseAfter(p)
  /\ UNCHANGED <<manifests, updated_at, config, inputs, tagDigest0>>

Start(op) == Log(State, op, NoDigest, NoTag)

\* what the clock may show when a handler that can reload starts
Readings == IF readsClock THEN now..(Now + MaxAdvance) ELSE {now}
At(n) == [State EXCEPT !.now = n]

Reload ==
  /\ pc = "reload"
  /\ Apply(reload(State))
  /\ pc' = phaseFrom(1)
  /\ UNCHANGED <<manifests, updated_at, config, inputs, tagDigest0>>

DeleteByTag ==
  \E n \in Readings :
    Step("deleteByTag", "deleteByTag",
         deleteByTag(Log(At(n), "deleteByTag", NoDigest, NoTag)))

DeletePartialImages ==
  /\ runsPartialImages
  /\ Step("partialGhost", "deletePartialImages",
          deletePartialImages(Start("deletePartialImages")))

DeleteGhostImages ==
  /\ runsGhostImages
  /\ Step("partialGhost", "deleteGhostImages",
          deleteGhostImages(Start("deleteGhostImages")))

KeepNtagged == Step("keepNtagged", "keepNtagged", keepNtagged(Start("keepNtagged")))

KeepNuntagged ==
  /\ runsKeepNuntagged
  /\ Step("untagged", "keepNuntagged", keepNuntagged(Start("keepNuntagged")))

DeleteUntagged ==
  /\ runsDeleteUntagged
  /\ Step("untagged", "deleteUntagged", deleteUntagged(Start("deleteUntagged")))

DoDelete == Step("doDelete", "doDelete", doDelete(Start("doDelete")))

Validate ==
  \E n \in Readings :
    Step("validate", "validate",
         validate(Log(reload(At(n)), "validate", NoDigest, NoTag)))

Next ==
  \/ Reload
  \/ DeleteByTag
  \/ DeletePartialImages
  \/ DeleteGhostImages
  \/ KeepNtagged
  \/ KeepNuntagged
  \/ DeleteUntagged
  \/ DoDelete
  \/ Validate

\* ---------------------------------------------------------------- specification
\* stores with shared children and referrers; untagged and tagged clean-up
GraphManifests ==
  {x \in ManifestMaps : Cardinality(Indexes(x)) <= MaxIndexes /\ NoMissing(x)}
GraphTagMaps ==
  {x \in TagMaps : /\ Cardinality(TagsUsed(x)) <= MaxTagsInUse
                   /\ x[<<"v", 3>>] = NoDigest}

InitGraph ==
  \E w \in GraphManifests \X GraphTagMaps \X {"", "v*"} \X {"", "v2", "sha256-*"}
           \X {"", "true"} :
    /\ (w[3] = "") # (w[5] = "") \/ w[4] = "v2"
    /\ InitWith(w[1], w[2], SameTime,
             [NoInputs EXCEPT !.deleteTags = w[3], !.excludeTags = w[4],
                              !.deleteUntagged = w[5]])

\* stores with index manifests whose children are no package
GhostManifests == {x \in ManifestMaps : Cardinality(Indexes(x)) <= MaxIndexes}
GhostTagMaps == {x \in TagMaps : Cardinality(TagsUsed(x)) <= 1}

InitGhost ==
  \E w \in GhostManifests \X GhostTagMaps \X {"false", "true"} \X {"false", "true"}
           \X {"", "true"} :
    /\ w[3] = "true" \/ w[4] = "true"
    /\ w[5] = "true" => w[4] = "false"
    /\ InitWith(w[1], w[2], SameTime,
                [NoInputs EXCEPT !.deleteGhostImages = w[3],
                                 !.deletePartialImages = w[4],
                                 !.deleteUntagged = w[5]])

\* stores with digests that carry several tags; tag deletion, alone or followed
\* by keep-n-tagged, by delete-untagged or by every other classifier
TagsManifests == {x \in ManifestMaps : Cardinality(Indexes(x)) <= 1 /\ NoMissing(x)}

InitTags ==
  \E w \in TagsManifests \X PlainTagMaps \X {"", "v1"} \X {"", "v1", "v*", "v1,v2"}
           \X {"", "v2"} \X {"", "true"} \X {"", "keep", "untagged", "all"} :
    /\ (w[3] = "") # (w[4] = "")
    /\ w[7] # "" => (w[4] \in {"v1", "v1,v2"} /\ w[5] = "")
    /\ w[7] \in {"keep", "untagged"} => w[6] = ""
    /\ InitWith(w[1], w[2], SameTime,
                [NoInputs EXCEPT !.tags = w[3], !.deleteTags = w[4],
                                 !.excludeTags = w[5], !.validate = w[6],
                                 !.keepNtagged =
                                    IF w[7] \in {"keep", "all"} THEN "1" ELSE "",
                                 !.keepNuntagged = IF w[7] = "all" THEN "1" ELSE "",
                                 !.deletePartialImages =
                                    IF w[7] = "all" THEN "true" ELSE "false",
                                 !.deleteUntagged =
                                    IF w[7] = "untagged" THEN "true" ELSE ""])

\* stores of images of different age; the keep-n and untagged policies, the
\* combinations getConfig rejects among them
InitKeep ==
  \E w \in PlainTagMaps \X TimeMaps \X KeepValues \X KeepValues
           \X {"", "true", "false"} :
    LET in == [NoInputs EXCEPT !.keepNtagged = w[3], !.keepNuntagged = w[4],
                               !.deleteUntagged = w[5]]
    IN InitWith([d \in Digests |-> Leaf], w[1], w[2], in)

\* stores of images of different age, some without updated_at (0); older-than
\* with tag deletion or delete-untagged
AgeTimeMaps == [Digests -> 0..MaxTime]
AgeTagMaps == {x \in PlainTagMaps : Cardinality(TagsUsed(x)) <= MaxTagsInUse}

InitAge ==
  \E w \in AgeTagMaps \X AgeTimeMaps \X {"0 days", "1 day", "2 days"}
           \X {"", "v*"} \X {"", "v2"} :
    InitWith([d \in Digests |-> Leaf], w[1], w[2],
             [NoInputs EXCEPT !.olderThan = w[3], !.deleteTags = w[4],
                              !.excludeTags = w[5],
                              !.deleteUntagged = IF w[4] = "" THEN "true" ELSE ""])

\* stores with index manifests whose children are no package, tagged or
\* referred to; delete-untagged followed by validate
ValidateManifests == {x \in ManifestMaps : Cardinality(Indexes(x)) <= MaxIndexes}
ValidateTagMaps == {x \in TagMaps : Cardinality(TagsUsed(x)) <= MaxTagsInUse}

InitValidate ==
  \E w \in ValidateManifests \X ValidateTagMaps :
    InitWith(w[1], w[2], SameTime,
             [NoInputs EXCEPT !.deleteUntagged = "true", !.validate = "true"])

Init == InitGraph \/ InitGhost \/ InitTags \/ InitKeep \/ InitAge \/ InitValidate

Spec == Init /\ [][Next]_vars

\* doDelete invoked once more on the same deleteSet, as a retry would
DoDeleteRetry ==
  /\ pc \in {"validate", "done"}
  /\ \A i \in 1..Len(calls) : calls[i].op \notin {"validate", "retry"}
  /\ Apply(doDelete(Start("retry")))
  /\ UNCHANGED <<pc, manifests, updated_at, config, inputs, tagDigest0>>

SpecRetry == Init /\ [][Next \/ DoDeleteRetry]_vars

\* ---------------------------------------------------------------- failing calls
\* a call to one of the two clients may throw. run() catches what reload throws
\* (main.ts 8-16) and CleanupAction.run what its handlers throw (main.ts 718-721):
\* both report the error with core.setFailed and nothing runs after them
\* variant: the run goes on to doDelete after the error was reported
afterCatchGoesOn == "doDelete"
afterCatch == "failed"
setFailed(s) == Log(s, "setFailed", NoDigest, NoTag)

\* reload when the manifest fetch for the k-th digest of the listing throws in
\* loadDigestUsedByMap: the map holds what the earlier digests contributed
reloadFailsBuilding(s, k) ==
  LET s1 == loadPackages([s EXCEPT !.deleteSet = <<>>, !.deleted = {}])
      s2 == [s1 EXCEPT !.filterSet = getDigests(s1), !.tagsInUse = getTags(s1)]
      fetched == Range(SubSeq(getDigests(s2), 1, k - 1))
      listedBy(c) == {p \in fetched : /\ getManifestByDigest(p).isIndex
                                      /\ c \in Range(getManifestByDigest(p).children)}
      keys == {c \in s2.ghDigests : listedBy(c) # {}}
  IN [s2 EXCEPT !.digestUsedBy = [c \in keys |-> listedBy(c)]]

\* reload when a fetch for the k-th digest of the listing throws in trimChildren
reloadFailsTrimming(s, k) ==
  LET s1 == loadPackages([s EXCEPT !.deleteSet = <<>>, !.deleted = {}])
      s2 == [s1 EXCEPT !.filterSet = getDigests(s1), !.tagsInUse = getTags(s1)]
      s3 == loadDigestUsedByMap(s2)
  IN trimChildrenLoop(s3, SubSeq(getDigests(s3), 1, k - 1))

ReloadFails ==
  /\ pc = "reload"
  /\ \E k \in 1..Cardinality(versions) :
       \/ Apply(setFailed(reloadFailsBuilding(State, k)))
       \/ Apply(setFailed(reloadFailsTrimming(State, k)))
  /\ pc' = afterCatch
  /\ UNCHANGED <<manifests, updated_at, config, inputs, tagDigest0>>

\* the handlers of run() that call the clients, as run() calls them
handler(p, s) ==
  CASE p = "deleteByTag" -> deleteByTag(s)
    [] p = "partialGhost" -> IF config.deletePartialImages THEN deletePartialImages(s)
                             ELSE deleteGhostImages(s)
    [] p = "doDelete" -> doDelete(s)
    [] p = "validate" -> validate(reload(s))

\* the entry of the call log that marks the start of the handler
startOf(p) ==
  IF p = "partialGhost"
  THEN (IF config.deletePartialImages THEN "deletePartialImages" ELSE "deleteGhostImages")
  ELSE p

isMutating(c) == c.op \in {"putManifest", "deletePackageVersion"}

\* the remote after the calls cs, in order
RECURSIVE replay(_, _)
replay(s, cs) ==
  IF cs = <<>> THEN s
  ELSE LET c == Head(cs)
           s1 == CASE c.op = "putManifest" ->
                        [s EXCEPT !.versions = @ \cup {c.digest},
                                  !.tagDigest[c.tag] = c.digest]
                   [] c.op = "deletePackageVersion" ->
                        [s EXCEPT !.versions = @ \ {c.digest},
                                  !.tagDigest = [t \in Tags |->
                                     IF @[t] = c.digest THEN NoDigest ELSE @[t]]]
                   [] OTHER -> s
       IN replay([s1 EXCEPT !.calls = Append(@, c)], Tail(cs))

\* a handler of run() throws after its first k mutating calls went through: the
\* remote keeps their effect; the fields of the action are not read again and
\* are left as they were when the handler started
HandlerFails ==
  /\ pc \in {"deleteByTag", "partialGhost", "doDelete", "validate"}
  /\ LET started == IF pc = "validate" THEN State ELSE Start(startOf(pc))
         issued == SubSeq(handler(pc, started).calls, Len(started.calls) + 1,
                           Len(handler(pc, started).calls))
         mutating == SelectSeq(issued, isMutating)
     IN \E k \in 0..Len(mutating) :
          Apply(setFailed(replay(started, SubSeq(mutating, 1, k))))
  /\ pc' = afterCatch
  /\ UNCHANGED <<manifests, updated_at, config, inputs, tagDigest0>>

SpecFail == Init /\ [][Next \/ ReloadFails \/ HandlerFails]_vars

\* runs with dry-run set: one clean-up policy each, on stores with at most one
\* index and with digests that carry several tags
DryRunManifests == {x \in ManifestMaps : Cardinality(Indexes(x)) <= 1}
DryRunInputs ==
  {[NoInputs EXCEPT !.dryRun = "true", !.deleteTags = "v*", !.validate = "true"],
   [NoInputs EXCEPT !.dryRun = "true", !.deleteTags = "v1"],
   [NoInputs EXCEPT !.dryRun = "true", !.deleteUntagged = "true"],
   [NoInputs EXCEPT !.dryRun = "true", !.keepNtagged = "1", !.keepNuntagged = "1"],
   [NoInputs EXCEPT !.dryRun = "true", !.deleteGhostImages = "true"],
   [NoInputs EXCEPT !.dryRun = "true", !.deletePartialImages = "true"]}

InitDryRun ==
  \E w \in DryRunManifests \X PlainTagMaps \X DryRunInputs :
    InitWith(w[1], w[2], SameTime, w[3])

SpecDryRun == InitDryRun /\ [][Next]_vars

\* deleteImage as a function of the action's state: the state is the one a
\* reload leaves, with any part of the entries of digestUsedBy absent, and
\* deleteImage is called for any known digest that is not deleted yet
CascadeManifests == {x \in ManifestMaps : Cardinality(Indexes(x)) <= MaxIndexes}
CascadeTagMaps == {x \in TagMaps : Cardinality(TagsUsed(x)) <= 1}

newAction(t) ==
  [versions |-> Digests, tagDigest |-> t, ghDigests |-> {},
   ghTag |-> [x \in Tags |-> NoDigest], tagCache |-> [x \in Tags |-> NoDigest],
   excludeTags |-> {}, filterSet |-> <<>>, deleteSet |-> <<>>, tagsInUse |-> {},
   digestUsedBy |-> <<>>, deleted |-> {}, numberMultiImagesDeleted |-> 0,
   numberImagesDeleted |-> 0, calls |-> <<>>, dryRun |-> FALSE, now |-> Now]

withEntries(s, K) ==
  [s EXCEPT !.digestUsedBy = [c \in K |-> s.digestUsedBy[c]]]

InitCascade ==
  \E w \in CascadeManifests \X CascadeTagMaps :
    /\ manifests = w[1]
    /\ updated_at = SameTime
    /\ now = Now
    /\ tagDigest0 = w[2]
    /\ inputs = NoInputs
    /\ config = getConfig(NoInputs)
    /\ pc = "deleteImage"
    /\ \E K \in SUBSET Digests :
         LET r == reload(newAction(w[2]))
             s == withEntries(r, K)
         IN /\ K \subseteq DOMAIN r.digestUsedBy
            /\ versions = s.versions
            /\ tagDigest = s.tagDigest
            /\ ghDigests = s.ghDigests
            /\ ghTag = s.ghTag
            /\ tagCache = s.tagCache
            /\ excludeTags = s.excludeTags
            /\ filterSet = s.filterSet
            /\ deleteSet = s.deleteSet
            /\ tagsInUse = s.tagsInUse
            /\ digestUsedBy = s.digestUsedBy
            /\ deleted = s.deleted
            /\ numberMultiImagesDeleted = s.numberMultiImagesDeleted
            /\ numberImagesDeleted = s.numberImagesDeleted
            /\ calls = <<>>

DeleteImageCall ==
  /\ pc = "deleteImage"
  /\ \E d \in ghDigests \ deleted :
       Apply(deleteImage(Log(State, "deleteImage", d, NoTag), d))
  /\ UNCHANGED <<manifests, updated_at, config, inputs, pc, tagDigest0>>

NextCascade == DeleteImageCall

SpecCascade == InitCascade /\ [][NextCascade]_vars

\* ---------------------------------------------------------------- the trims of reload
\* the three trims of reload as functions of the action's state, applied in any
\* order and any number of times up to MaxTrims to the state in which reload
\* reaches its first trim: at the initial reload (pc = "trims", excludeTags
\* empty) or at a later reload (pc = "trimsAgain", excludeTags as the reload
\* before left it)
TrimManifests == {x \in ManifestMaps : Cardinality(Indexes(x)) <= 1 /\ NoMissing(x)}
TrimTagMaps ==
  {x \in TagMaps : /\ Cardinality(TagsUsed(x)) <= MaxTagsInUse
                   /\ x[<<"v", 3>>] = NoDigest /\ x[<<"v", 1>>] = NoDigest}
TrimTimeMaps == [Digests -> {1, MaxTime}]
TrimInputs ==
  {[NoInputs EXCEPT !.excludeTags = e, !.olderThan = o] :
     e \in {"", "v2", "sha256-*"}, o \in {"", "1 day"}}

\* reload up to its first trim
beforeTrims(s) ==
  LET s1 == loadPackages([s EXCEPT !.deleteSet = <<>>, !.deleted = {}])
      s2 == [s1 EXCEPT !.filterSet = getDigests(s1), !.tagsInUse = getTags(s1)]
  IN loadDigestUsedByMap(s2)

\* the excludeTags a reload leaves
matchedExcludeTags(t) == {x \in TagsUsed(t) : isTagMatch(config.excludeTags, x)}

InitTrims ==
  \E w \in TrimManifests \X TrimTagMaps \X TrimTimeMaps \X TrimInputs
           \X {"trims", "trimsAgain"} :
    /\ w[4].olderThan = "" => w[3] = SameTime
    /\ manifests = w[1]
    /\ updated_at = w[3]
    /\ now = Now
    /\ tagDigest0 = w[2]
    /\ inputs = w[4]
    /\ config = getConfig(w[4])
    /\ pc = w[5]
    /\ LET e == IF w[5] = "trims" THEN {} ELSE matchedExcludeTags(w[2])
           s == beforeTrims([newAction(w[2]) EXCEPT !.excludeTags = e])
       IN /\ versions = s.versions
          /\ tagDigest = s.tagDigest
          /\ ghDigests = s.ghDigests
          /\ ghTag = s.ghTag
          /\ tagCache = s.tagCache
          /\ excludeTags = s.excludeTags
          /\ filterSet = s.filterSet
          /\ deleteSet = s.deleteSet
          /\ tagsInUse = s.tagsInUse
          /\ digestUsedBy = s.digestUsedBy
          /\ deleted = s.deleted
          /\ numberMultiImagesDeleted = s.numberMultiImagesDeleted
          /\ numberImagesDeleted = s.numberImagesDeleted
          /\ calls = <<>>

Trim(op, s) ==
  /\ pc \in {"trims", "trimsAgain"}
  /\ Len(calls) < MaxTrims
  /\ Apply(s)
  /\ UNCHANGED <<manifests, updated_at, config, inputs, pc, tagDigest0>>

TrimChildren == Trim("trimChildren", trimChildren(Start("trimChildren")))
TrimExcluded == Trim("trimExcluded", trimExcluded(Start("trimExcluded")))
TrimNewer == Trim("trimNewer", trimNewer(Start("trimNewer")))

NextTrims == TrimChildren \/ TrimExcluded \/ TrimNewer

SpecTrims == InitTrims /\ [][NextTrims]_vars

\* ---------------------------------------------------------------- doDelete, call by call
\* doDelete with every call of deleteImage as a step of its own: at "doDelete"
\* the loop over deleteSet takes its next digest, at "deleteImage" the call
\* that is pending is executed up to the call it makes to itself
DoDeleteManifests == {x \in ManifestMaps : Cardinality(Indexes(x)) <= MaxIndexes /\ NoMissing(x)}
\* referrer tags only, every digest may have one
DoDeleteTagMaps == {x \in TagMaps : TagsUsed(x) \cap PlainTags = {}}

InitDoDelete ==
  \E w \in DoDeleteManifests \X DoDeleteTagMaps \X {"", "sha256-1"} :
    InitWith(w[1], w[2], SameTime,
             [NoInputs EXCEPT !.deleteUntagged = "true", !.excludeTags = w[3]])

\* deleteImage from the deletion of name to the end of the child loop
deleteImageBody(s, name) ==
  LET manifest == getManifestByDigest(name)
      s1 == deletePackageVersion(s, name)
      s2 == [s1 EXCEPT !.deleted = @ \cup {name}, !.numberImagesDeleted = @ + 1]
  IN IF manifest.isIndex
     THEN deleteChildren([s2 EXCEPT !.numberMultiImagesDeleted = @ + 1],
                         name, manifest.children)
     ELSE s2

\* the digest of the call of deleteImage that has been made and not executed
pendingCall ==
  LET made == {i \in 1..Len(calls) : calls[i].op \in {"doDelete", "deleteImage"}}
  IN calls[CHOOSE i \in made : \A j \in made : j <= i].digest

\* the loop of doDelete: call deleteImage for the next digest of deleteSet
DoDeleteLoop ==
  /\ pc = "doDelete"
  /\ LET i == Cardinality({k \in 1..Len(calls) : calls[k].op = "doDelete"})
     IN IF i < Len(deleteSet)
        THEN /\ Apply(Log(State, "doDelete", deleteSet[i + 1], NoTag))
             /\ pc' = "deleteImage"
        ELSE /\ Apply(State)
             /\ pc' = phaseAfter("doDelete")
  /\ UNCHANGED <<manifests, updated_at, config, inputs, tagDigest0>>

\* variant: a call of deleteImage without the test on the deleted set
DeleteImageStepUnchecked ==
  /\ pc = "deleteImage"
  /\ LET name == pendingCall
         s3 == deleteImageBody(State, name)
         attestationTag == ReferrerTag(name)
     IN IF attestationTag \in s3.tagsInUse /\ attestationTag \notin s3.excludeTags
        THEN /\ Apply(Log(cacheTag(s3, attestationTag), "deleteImage",
                          getTagDigest(s3, attestationTag), NoTag))
             /\ pc' = "deleteImage"
        ELSE /\ Apply(s3)
             /\ pc' = "doDelete"
  /\ UNCHANGED <<manifests, updated_at, config, inputs, tagDigest0>>

\* one call of deleteImage, up to the call it makes for the referrer
DeleteImageStep ==
  /\ pc = "deleteImage"
  /\ LET name == pendingCall
     IN IF name \notin deleted
        THEN LET s3 == deleteImageBody(State, name)
                 attestationTag == ReferrerTag(name)
             IN IF attestationTag \in s3.tagsInUse /\ attestationTag \notin s3.excludeTags
                THEN /\ Apply(Log(cacheTag(s3, attestationTag), "deleteImage",
                                  getTagDigest(s3, attestationTag), NoTag))
                     /\ pc' = "deleteImage"
                ELSE /\ Apply(s3)
                     /\ pc' = "doDelete"
        ELSE /\ Apply(State)
             /\ pc' = "doDelete"
  /\ UNCHANGED <<manifests, updated_at, config, inputs, tagDigest0>>

NextDoDelete == Reload \/ DeleteUntagged \/ DoDeleteLoop \/ DeleteImageStep

\* the steps of doDelete are taken as long as one is possible
SpecDoDelete ==
  InitDoDelete /\ [][NextDoDelete]_vars /\ WF_vars(DoDeleteLoop \/ DeleteImageStep)

\* ---------------------------------------------------------------- properties
\* doDelete has completed and nothing ran after it
afterDoDelete ==
  /\ pc \in {"validate", "done"}
  /\ \A i \in 1..Len(calls) : calls[i].op # "validate"

\* the index digests of the last reload
knownIndexes == {p \in ghDigests : getManifestByDigest(p).isIndex}

\* the children of p that were packages at the last reload
knownChildren(p) == Range(getManifestByDigest(p).children) \cap ghDigests

\* C1: after doDelete, a child of an index that still exists still exists
C1_NoChildOfSurvivorDeleted ==
  afterDoDelete =>
    \A p \in knownIndexes : p \in versions => knownChildren(p) \subseteq versions

\* the digests an in-use referrer tag of a package of the last reload points to
referrerTargets == {ghTag[ReferrerTag(d)] : d \in ghDigests} \ {NoDigest}

parentsOf(c) == {p \in knownIndexes : c \in knownChildren(p)}

\* C2: a known child of exactly two indexes survives, with the other parent as
\* its digestUsedBy entry, when doDelete deletes one of them; it is deleted only
\* when both are, and is deleted with its entry dropped when both were in deleteSet
C2_ReferenceCounting ==
  afterDoDelete =>
    \A c \in ghDigests :
      Cardinality(parentsOf(c)) = 2 =>
        LET gone == parentsOf(c) \ versions
        IN /\ Cardinality(gone) = 1 =>
                /\ c \in versions
                /\ c \in DOMAIN digestUsedBy
                /\ digestUsedBy[c] = parentsOf(c) \ gone
           /\ c \notin versions => gone = parentsOf(c)
           /\ parentsOf(c) \subseteq Range(deleteSet) =>
                c \notin versions /\ c \notin DOMAIN digestUsedBy

\* C3: a tag that matches exclude-tags keeps pointing to its digest, which is
\* never deleted
C3_ExcludedTagsPreserved ==
  \A t \in Tags :
    (tagDigest0[t] # NoDigest /\ isTagMatch(config.excludeTags, t)) =>
      /\ tagDigest[t] = tagDigest0[t]
      /\ tagDigest0[t] \in versions

\* the tags a digest carried before the run, and those delete-tags matches
tagsBefore(d) == {t \in Tags : tagDigest0[t] = d}
matchedBefore(d) == {t \in tagsBefore(d) : isTagMatch(config.deleteTags, t)}

\* filterSet as the first reload left it
initialFilterSet ==
  Range(reload([State EXCEPT !.versions = Digests, !.tagDigest = tagDigest0,
                             !.excludeTags = {}, !.now = Now,
                             !.tagCache = [x \in Tags |-> NoDigest]]).filterSet)

\* tag deletion is the only clean-up option that can move a tagged digest
onlyTagDeletion ==
  /\ config.deleteTags # ""
  /\ ~phaseRuns("partialGhost")
  /\ ~phaseRuns("keepNtagged")

callsOf(op) == {i \in 1..Len(calls) : calls[i].op = op}

\* the run untagged one tag of d: d and its other tags are as before, one
\* manifest was pushed, under the matched tag, and the digest it made was deleted
untaggedOne(d) ==
  /\ d \in versions
  /\ \A i \in callsOf("deletePackageVersion") : calls[i].digest # d
  /\ \A t \in tagsBefore(d) \ matchedBefore(d) : tagDigest[t] = d
  /\ \E i \in callsOf("putManifest") :
       /\ calls[i].tag \in matchedBefore(d)
       /\ calls[i].digest = NewDigest(d)
       /\ \A j \in callsOf("putManifest") : calls[j].tag \in tagsBefore(d) => j = i
       /\ \E j \in callsOf("deletePackageVersion") :
            j > i /\ calls[j].digest = NewDigest(d)
  /\ NewDigest(d) \notin versions

untaggingCase(d) ==
  /\ onlyTagDeletion
  /\ Cardinality(tagsBefore(d)) >= 2
  /\ Cardinality(matchedBefore(d)) = 1

doDeleteCalls ==
  {i \in callsOf("deletePackageVersion") :
     \E j \in callsOf("doDelete") : j < i}

\* C5: doDelete issues deletePackageVersion at most once per digest, and a
\* second doDelete on the same deleteSet issues no call and leaves the counters
C5_DeleteOnce ==
  /\ [](\A i, j \in doDeleteCalls : calls[i].digest = calls[j].digest => i = j)
  /\ [][DoDeleteRetry =>
          /\ callsOf("deletePackageVersion")' = callsOf("deletePackageVersion")
          /\ numberImagesDeleted' = numberImagesDeleted
          /\ numberMultiImagesDeleted' = numberMultiImagesDeleted
          /\ versions' = versions]_vars

\* a retry after a doDelete that met a digest deleted earlier in the cascade
C5_Witness ==
  /\ callsOf("retry") # {}
  /\ numberImagesDeleted >= 2
  /\ \E c \in deleted : c \in referrerTargets /\ parentsOf(c) \cap deleted # {}

topLevel(d) ==
  /\ \A p \in knownIndexes : d \notin Range(getManifestByDigest(p).children)
  /\ \A x \in ghDigests :
       (ReferrerTag(x) \in tagsInUse /\ ReferrerTag(x) \notin excludeTags) =>
         /\ d # ghTag[ReferrerTag(x)]
         /\ d \notin Range(getManifestByDigest(ghTag[ReferrerTag(x)]).children)

\* C6: once reload has run, every digest of filterSet is top-level: no child of
\* a known index, no target of an unexcluded referrer tag, no child of that target
C6_FilterSetTopLevel ==
  pc \notin {"reload", "failed"} => \A d \in Range(filterSet) : topLevel(d)

C6_Witness ==
  /\ pc \notin {"reload", "failed"}
  /\ calls[Len(calls)].op = "reload"
  /\ filterSet # <<>>
  /\ \E p \in knownIndexes : knownChildren(p) # {}
  /\ \E x \in ghDigests :
       /\ ReferrerTag(x) \in tagsInUse
       /\ ReferrerTag(x) \notin excludeTags
       /\ parentsOf(ghTag[ReferrerTag(x)]) = {}

\* ---------------------------------------------------------------- classifier properties
inFilterSet == Range(filterSet)
inDeleteSet == Range(deleteSet)
hasTags(d) == \E t \in Tags : ghTag[t] = d
position(d) == CHOOSE i \in 1..Len(filterSet) : filterSet[i] = d
lastCall == IF calls = <<>> THEN "" ELSE calls[Len(calls)].op

\* an index none of whose child descriptors is a known package
allChildrenMissing(d) ==
  /\ getManifestByDigest(d).isIndex
  /\ knownChildren(d) = {}

\* an index with a child descriptor that is a known package and one that is not
someChildrenMissing(d) ==
  /\ getManifestByDigest(d).isIndex
  /\ knownChildren(d) # {}
  /\ ~(Range(getManifestByDigest(d).children) \subseteq ghDigests)

\* C7: deleteGhostImages moves exactly the indexes of filterSet none of whose
\* children is a known package; the other digests stay, and the known children
\* of an index that stays are in neither set
C7_GhostClassification ==
  [][DeleteGhostImages =>
       /\ inDeleteSet' = inDeleteSet \cup {d \in inFilterSet : allChildrenMissing(d)}
       /\ inFilterSet' = {d \in inFilterSet : ~allChildrenMissing(d)}
       /\ \A d \in inFilterSet' :
            knownChildren(d) \cap (inFilterSet' \cup inDeleteSet') = {}]_vars

\* deleteGhostImages moved an index whose two children are missing and left one
\* with one child of two missing
C7_Witness ==
  /\ lastCall = "deleteGhostImages"
  /\ \E d \in inDeleteSet :
       allChildrenMissing(d) /\ Len(getManifestByDigest(d).children) = 2
  /\ \E d \in inFilterSet : someChildrenMissing(d)

\* C8: deletePartialImages moves exactly the indexes of filterSet some but not
\* all of whose children are missing
C8_PartialClassification ==
  [][DeletePartialImages =>
       /\ inDeleteSet' = inDeleteSet \cup {d \in inFilterSet : someChildrenMissing(d)}
       /\ inFilterSet' = {d \in inFilterSet : ~someChildrenMissing(d)}]_vars

\* the digests of ds that keepN keeps and moves: at most n are kept, each kept
\* one is newer than each moved one or, of the same age, was before it
keepsNewest(ds, n, strict) ==
  LET kept == ds \cap inFilterSet'
      moved == ds \ kept
  IN /\ Cardinality(kept) = IF Cardinality(ds) <= n THEN Cardinality(ds) ELSE n
     /\ moved \subseteq inDeleteSet'
     /\ inDeleteSet' = inDeleteSet \cup moved
     /\ inFilterSet' = inFilterSet \ moved
     /\ \A k \in kept, m \in moved :
          \/ updatedAt(k) > updatedAt(m)
          \/ updatedAt(k) = updatedAt(m) /\ (strict => position(k) < position(m))

\* C9: keepNtagged keeps the N newest tagged digests of filterSet, the earlier
\* one of two of the same age, moves the other tagged ones to deleteSet and
\* leaves the untagged ones
C9_KeepNtagged ==
  [][KeepNtagged =>
       keepsNewest({d \in inFilterSet : hasTags(d)}, keepNtaggedCount, TRUE)]_vars

\* keepNtagged kept two of three tagged digests: a newer one, and the earlier
\* one of two of the same age
C9_Witness ==
  /\ lastCall = "keepNtagged"
  /\ \E k \in inFilterSet, m \in inDeleteSet :
       /\ hasTags(k) /\ hasTags(m)
       /\ updatedAt(k) = updatedAt(m)
       /\ k < m
  /\ \E k \in inFilterSet, m \in inDeleteSet :
       hasTags(k) /\ hasTags(m) /\ updatedAt(k) > updatedAt(m)

\* C10: with keep-n-untagged set, keepNuntagged runs, deleteUntagged does not,
\* and the N newest untagged digests of filterSet stay; with delete-untagged
\* alone all untagged digests move; no tagged digest moves
C10_UntaggedPolicies ==
  /\ [](keepNuntaggedCount # Unset => callsOf("deleteUntagged") = {})
  /\ []((pc \in {"doDelete", "validate", "done"} /\ keepNuntaggedCount # Unset)
          => callsOf("keepNuntagged") # {})
  /\ []((pc \in {"doDelete", "validate", "done"} /\ keepNuntaggedCount = Unset
          /\ config.deleteUntagged) => callsOf("deleteUntagged") # {})
  /\ [][KeepNuntagged =>
          keepsNewest({d \in inFilterSet : ~hasTags(d)}, keepNuntaggedCount, FALSE)]_vars
  /\ [][DeleteUntagged =>
          /\ inDeleteSet' = inDeleteSet \cup {d \in inFilterSet : ~hasTags(d)}
          /\ inFilterSet' = {d \in inFilterSet : hasTags(d)}]_vars

\* keep-n-untagged 0 together with delete-untagged: keepNuntagged ran and moved
\* the untagged digests, a tagged one stayed
C10_Witness ==
  /\ lastCall = "keepNuntagged"
  /\ keepNuntaggedCount = 0
  /\ config.deleteUntagged
  /\ \E d \in inDeleteSet : ~hasTags(d)
  /\ \E d \in inFilterSet : hasTags(d)

\* ---------------------------------------------------------------- configuration properties
\* C11: with no clean-up option supplied, getConfig sets deleteUntagged, and
\* after doDelete the untagged digests the first reload left in filterSet are gone
C11_DefaultDeleteUntagged ==
  noCleanupOption(inputs) =>
    /\ config.deleteUntagged
    /\ afterDoDelete =>
         \A d \in initialFilterSet : tagsBefore(d) = {} => d \notin versions

\* ---------------------------------------------------------------- dry run
\* the store and the action as they are before the run, dry-run as given
beforeRun(dry) ==
  [State EXCEPT !.versions = Digests, !.tagDigest = tagDigest0,
                !.ghDigests = {}, !.ghTag = [x \in Tags |-> NoDigest],
                !.tagCache = [x \in Tags |-> NoDigest], !.excludeTags = {},
                !.filterSet = <<>>, !.deleteSet = <<>>, !.tagsInUse = {},
                !.digestUsedBy = <<>>, !.deleted = {},
                !.numberMultiImagesDeleted = 0, !.numberImagesDeleted = 0,
                !.calls = <<>>, !.dryRun = dry, !.now = Now]

\* deleteSet as the classifiers leave it in a run without dry-run on this store
deleteSetOfRealRun == Range(classify(reload(beforeRun(FALSE))).deleteSet)

\* C12: with dry-run no version is removed and no tag moves, and the classifiers
\* leave the deleteSet they leave without dry-run
C12_DryRun ==
  dryRunFlag =>
    /\ versions = Digests
    /\ tagDigest = tagDigest0
    /\ pc = "doDelete" => inDeleteSet = deleteSetOfRealRun

\* ---------------------------------------------------------------- age trim
olderThanConfigured == config.olderThan \notin {Unset, NaN}
hasUpdatedAt(d) == updatedAt(d) # 0
atOrAfterCutOff(d) == hasUpdatedAt(d) /\ updatedAt(d) >= now - config.olderThan

\* a digest of the listing that neither the child trim nor the exclude-tags
\* trim of a reload removes
keptBeforeAgeTrim(d) ==
  /\ d \in ghDigests
  /\ parentsOf(d) = {}
  /\ \A x \in ghDigests :
       ghTag[ReferrerTag(x)] # NoDigest =>
         /\ d # ghTag[ReferrerTag(x)]
         /\ d \notin Range(getManifestByDigest(ghTag[ReferrerTag(x)]).children)
  /\ \A t \in Tags : ghTag[t] = d => ~isTagMatch(config.excludeTags, t)

\* C13: with older-than configured, once reload has run filterSet holds no digest
\* updated at or after now - older-than, and reload leaves in filterSet every
\* digest without updated_at that its other trims keep
C13_AgeTrim ==
  /\ []((olderThanConfigured /\ pc \notin {"reload", "failed"}) =>
          \A d \in inFilterSet : ~atOrAfterCutOff(d))
  /\ [][(Reload /\ olderThanConfigured) =>
          \A d \in Digests :
            (keptBeforeAgeTrim(d)' /\ ~hasUpdatedAt(d)) => d \in inFilterSet']_vars

\* a reload with older-than left a digest without updated_at and an old one in
\* filterSet and removed one updated exactly at the cut-off
C13_Witness ==
  /\ lastCall = "reload"
  /\ olderThanConfigured
  /\ config.olderThan > 0
  /\ \E d \in inFilterSet : ~hasUpdatedAt(d)
  /\ \E d \in inFilterSet : hasUpdatedAt(d)
  /\ \E d \in ghDigests \ inFilterSet :
       keptBeforeAgeTrim(d) /\ updatedAt(d) = now - config.olderThan

\* ---------------------------------------------------------------- deleting every tag
\* the tag of d that its package lists last
lastTagOf(d) ==
  TagList[CHOOSE i \in 1..Len(TagList) :
            /\ TagList[i] \in tagsBefore(d)
            /\ \A j \in (i + 1)..Len(TagList) : TagList[j] \notin tagsBefore(d)]

\* d carries several tags and delete-tags matches them all
allTagsMatched(d) ==
  /\ Cardinality(tagsBefore(d)) >= 2
  /\ matchedBefore(d) = tagsBefore(d)

\* d is top-level in the store and none of its tags is excluded
topLevelBefore(d) ==
  /\ \A p \in Digests : d \notin Range(manifests[p].children)
  /\ \A t \in tagsBefore(d) : t[1] # "sha256-" /\ ~isTagMatch(config.excludeTags, t)

\* the run untagged every tag of d but the last, put d in deleteSet under the
\* last tag after a reload that followed the untagging, and doDelete deleted d
untaggedAllButLast(d) ==
  /\ \A t \in tagsBefore(d) \ {lastTagOf(d)} :
       \E i \in callsOf("putManifest") :
         /\ calls[i].tag = t
         /\ calls[i].digest = NewDigest(d)
         /\ \A j \in callsOf("putManifest") : calls[j].tag = t => j = i
  /\ \A i \in callsOf("putManifest") : calls[i].tag # lastTagOf(d)
  /\ \E a \in callsOf("deleteSet.add") :
       /\ calls[a].digest = d
       /\ calls[a].tag = lastTagOf(d)
       /\ \E r \in callsOf("reload") :
            /\ r < a
            /\ \A i \in callsOf("putManifest") : i < r
  /\ \E k \in doDeleteCalls : calls[k].digest = d
  /\ d \notin versions

C15_RejectsUntaggedClash ==
  untaggedOptionsClash(inputs) =>
    /\ config.error # ""
    /\ pc = "failed"
    /\ calls = <<>>
    /\ ghDigests = {}

\* ---------------------------------------------------------------- reload barrier
\* what run() does with the state once untagging is over: additions to
\* deleteSet, the later classifiers, doDelete
afterUntagging ==
  {i \in 1..Len(calls) :
     calls[i].op \in {"deleteSet.add", "deletePartialImages", "deleteGhostImages",
                      "keepNtagged", "keepNuntagged", "deleteUntagged", "doDelete"}}

\* C16: when a manifest was pushed to untag, a reload follows the last push and
\* precedes every addition to deleteSet and every later classifier; a
\* deleteByTag that pushes no manifest does not reload
C16_ReloadBarrier ==
  /\ [](callsOf("putManifest") # {} =>
          \E r \in callsOf("reload") :
            /\ \A i \in callsOf("putManifest") : i < r
            /\ \A k \in afterUntagging : r < k)
  /\ [][(DeleteByTag /\ callsOf("putManifest")' = callsOf("putManifest")) =>
          callsOf("reload")' = callsOf("reload")]_vars

\* after an untagging and the reload, a digest was added to deleteSet and
\* keepNtagged ran
C16_Witness ==
  /\ Cardinality(callsOf("putManifest")) >= 1
  /\ \E k \in callsOf("deleteSet.add") : \A i \in callsOf("putManifest") : i < k
  /\ callsOf("keepNtagged") # {}
  /\ pc = "done"

\* ---------------------------------------------------------------- phase order
\* the position of a phase of run() in the order the claim gives
rank(op) ==
  CASE op = "deleteByTag" -> 1
    [] op \in {"deletePartialImages", "deleteGhostImages"} -> 2
    [] op = "keepNtagged" -> 3
    [] op \in {"keepNuntagged", "deleteUntagged"} -> 4
    [] op = "doDelete" -> 5
    [] op = "validate" -> 6
    [] OTHER -> 0

phaseStarts == {i \in 1..Len(calls) : rank(calls[i].op) > 0}
classifiersDone == pc \in {"doDelete", "validate", "done"}

\* C17: the phases of a run start in the order tag deletion, partial or ghost,
\* keep-n-tagged, keep-n-untagged or delete-untagged, doDelete, validate, each
\* at most once; every enabled classifier has run when doDelete starts; doDelete
\* runs once; validate runs if and only if the flag is set, after doDelete and
\* a reload that follows it
C17_PhaseOrder ==
  /\ \A i, j \in phaseStarts : i < j => rank(calls[i].op) < rank(calls[j].op)
  /\ classifiersDone =>
       /\ config.deleteTags # "" => callsOf("deleteByTag") # {}
       /\ config.deletePartialImages => callsOf("deletePartialImages") # {}
       /\ (config.deleteGhostImages /\ ~config.deletePartialImages) =>
            callsOf("deleteGhostImages") # {}
       /\ keepNtaggedCount # Unset => callsOf("keepNtagged") # {}
       /\ keepNuntaggedCount # Unset => callsOf("keepNuntagged") # {}
       /\ (keepNuntaggedCount = Unset /\ config.deleteUntagged) =>
            callsOf("deleteUntagged") # {}
  /\ pc \in {"validate", "done"} => Cardinality(callsOf("doDelete")) = 1
  /\ \A v \in callsOf("validate") :
       /\ validateFlag
       /\ \E d \in callsOf("doDelete"), r \in callsOf("reload") : d < r /\ r < v
  /\ (pc = "done" /\ validateFlag) => callsOf("validate") # {}

\* a finished run of tag deletion, the partial scan, both keep-n policies,
\* doDelete and validate
C17_Witness ==
  /\ pc = "done"
  /\ callsOf("deleteByTag") # {}
  /\ callsOf("deletePartialImages") # {}
  /\ callsOf("keepNtagged") # {}
  /\ callsOf("keepNuntagged") # {}
  /\ callsOf("doDelete") # {}
  /\ callsOf("validate") # {}

\* ---------------------------------------------------------------- partial before ghost
bothScansEnabled == config.deletePartialImages /\ config.deleteGhostImages

\* C18: with delete-partial-images and delete-ghost-images both set,
\* deleteGhostImages never runs and deletePartialImages has run once the
\* classifiers are done
C18_PartialExcludesGhost ==
  bothScansEnabled =>
    /\ callsOf("deleteGhostImages") = {}
    /\ classifiersDone => Cardinality(callsOf("deletePartialImages")) = 1

\* both set: deletePartialImages ran on a store with an index without known
\* children and left it to doDelete
C18_Witness ==
  /\ bothScansEnabled
  /\ pc = "done"
  /\ callsOf("deletePartialImages") # {}
  /\ \E d \in Digests : allChildrenMissing(d) /\ manifests[d].children # <<>>

\* ---------------------------------------------------------------- child loop
\* the digests one call of deleteImage adds to the deleted set
newlyDeleted == deleted' \ deleted
\* the digest deleteImage is called for in this step
calledDigest == calls'[Len(calls) + 1].digest
\* the client calls of this step
callsOfStep == {i \in (Len(calls) + 2)..Len(calls') : calls'[i].op = "deletePackageVersion"}

\* C19: one call of deleteImage deletes no known child that has no entry in
\* digestUsedBy and no child that is not a known package, and still deletes
\* every later child that only the deleted index refers to
C19_ChildLoop ==
  [][(pc = "deleteImage" /\ calls' # calls) =>
       /\ Missing \notin deleted'
       /\ \A i \in callsOfStep : calls'[i].digest \in newlyDeleted
       /\ \A c \in newlyDeleted :
            \/ c = calledDigest
            \/ c \in DOMAIN digestUsedBy
            \/ \E y \in newlyDeleted : tagDigest[ReferrerTag(y)] = c
       /\ \A c \in Range(manifests[calledDigest].children) :
            (/\ c \in ghDigests \ deleted
             /\ c \in DOMAIN digestUsedBy
             /\ digestUsedBy[c] = {calledDigest}) => c \in newlyDeleted]_vars
C19_Witness ==
  /\ pc = "deleteImage"
  /\ Cardinality(callsOf("deleteImage")) = 1
  /\ tagsInUse = {}
  /\ \E p \in deleted :
       /\ calls[1].digest = p
       /\ Len(manifests[p].children) = 2
       /\ manifests[p].children[1] \in ghDigests \ deleted
       /\ manifests[p].children[1] \notin DOMAIN digestUsedBy
       /\ manifests[p].children[2] \in deleted

\* ---------------------------------------------------------------- referrer cascade
\* the digest deleteImage goes on to after deleting x, if any
referrerOf(x) ==
  IF ReferrerTag(x) \in tagsInUse /\ ReferrerTag(x) \notin excludeTags
  THEN {ghTag[ReferrerTag(x)]}
  ELSE {}

\* C20: after doDelete, the target of the in-use, unexcluded referrer tag of
\* every deleted digest is deleted too, and every deleted digest is a digest of
\* deleteSet, a known child of a deleted index or such a target, so a digest
\* reached only through an absent or excluded referrer tag is not deleted
C20_ReferrerCascade ==
  afterDoDelete =>
    /\ \A x \in deleted : referrerOf(x) \subseteq deleted
    /\ \A y \in deleted :
         \/ y \in Range(deleteSet)
         \/ parentsOf(y) \cap deleted # {}
         \/ \E x \in deleted : y \in referrerOf(x)

\* ---------------------------------------------------------------- reference map
\* digestUsedBy is as the last reload left it: no deleteImage has run since
mapAsLoaded ==
  /\ pc \notin {"reload", "failed"}
  /\ callsOf("doDelete") = {} \/ callsOf("validate") # {}

\* the known indexes whose manifest lists c
listing(c) ==
  {p \in ghDigests : /\ getManifestByDigest(p).isIndex
                     /\ c \in Range(getManifestByDigest(p).children)}

\* C21: as loadDigestUsedByMap leaves it, digestUsedBy has an entry for c
\* exactly when c is a known digest listed by a known index, the entry is the
\* set of the known indexes that list c, and no entry is empty
C21_ReferenceMap ==
  mapAsLoaded =>
    /\ \A c \in AllDigests :
         c \in DOMAIN digestUsedBy <=> (c \in ghDigests /\ listing(c) # {})
    /\ \A c \in DOMAIN digestUsedBy :
         digestUsedBy[c] = listing(c) /\ digestUsedBy[c] # {}
C21_Witness ==
  /\ mapAsLoaded
  /\ \E c \in DOMAIN digestUsedBy : Cardinality(digestUsedBy[c]) = 2
  /\ \E p \in ghDigests : Missing \in Range(getManifestByDigest(p).children)
  /\ \E c \in ghDigests : c \notin DOMAIN digestUsedBy

\* ---------------------------------------------------------------- classifier frame
classifierPhases == {"partialGhost", "keepNtagged", "untagged"}
classifierNames ==
  {"deleteGhostImages", "deletePartialImages", "keepNtagged", "keepNuntagged",
   "deleteUntagged"}

classifierFrame ==
  /\ UNCHANGED <<digestUsedBy, deleted, excludeTags, numberImagesDeleted,
                 numberMultiImagesDeleted, versions, tagDigest, tagCache,
                 ghDigests, ghTag, tagsInUse>>
  /\ Len(calls') = Len(calls) + 1
  /\ calls'[Len(calls')].op \in classifierNames
  /\ SubSeq(calls', 1, Len(calls)) = calls

\* C22: a step of deleteGhostImages, deletePartialImages, keepNtagged, keepNuntagged
\* or deleteUntagged leaves digestUsedBy, deleted, excludeTags, both counters and
\* the remote unchanged, and issues no call to the clients
C22_ClassifierFrame == [][(pc \in classifierPhases) => classifierFrame]_vars
C22_Witness ==
  /\ pc = "doDelete"
  /\ callsOf("deletePartialImages") # {}
  /\ callsOf("keepNtagged") # {}
  /\ callsOf("keepNuntagged") # {}
  /\ Len(deleteSet) >= 2
  /\ digestUsedBy # <<>>

\* ---------------------------------------------------------------- the two sets
\* C23: filterSet and deleteSet have no digest in common
C23_Disjoint == Range(filterSet) \cap Range(deleteSet) = {}
C23_Witness ==
  /\ callsOf("deleteSet.add") # {}
  /\ Cardinality(callsOf("reload")) >= 2
  /\ callsOf("keepNuntagged") # {}
  /\ Len(deleteSet) >= 2
  /\ filterSet # <<>>

\* the steps from the end of the initial reload to the end of doDelete
inRun == pc \notin {"reload", "failed", "validate", "done"}
shrinkAndGrow ==
  /\ Range(filterSet') \subseteq Range(filterSet)
  /\ Range(deleteSet) \subseteq Range(deleteSet')

\* C24: from the end of the initial reload to the end of doDelete no step adds
\* a digest to filterSet and no step removes a digest from deleteSet
C24_Monotone == [][inRun => shrinkAndGrow]_vars

\* ---------------------------------------------------------------- validate
afterValidate == pc = "done" /\ callsOf("validate") # {}
\* the warnings validate issued for the child digest c
warningsFor(c) == {i \in callsOf("warning") : calls[i].digest = c}

\* C25: validate warns at most once about a child digest, and exactly once
\* about a digest that is no known package and that a known index lists
C25_WarnOnce ==
  afterValidate =>
    \A c \in AllDigests :
      /\ Cardinality(warningsFor(c)) <= 1
      /\ (c \notin ghDigests /\ listing(c) # {}) => Cardinality(warningsFor(c)) = 1

\* ---------------------------------------------------------------- failures
\* the position in calls of the last put or delete that names digest d, 0 if none
lastMutation(d) ==
  LET m == {i \in 1..Len(calls) : isMutating(calls[i]) /\ calls[i].digest = d}
  IN IF m = {} THEN 0 ELSE CHOOSE i \in m : \A j \in m : j <= i

\* the error was reported before any handler of run() started
failedInReload ==
  /\ callsOf("setFailed") # {}
  /\ \A i \in 1..Len(calls) : calls[i].op \in {"setFailed", "reload"} => i = Len(calls)

\* C26: once an error is reported the run is in the failed state and nothing
\* is called after the report; when the initial reload failed no handler of
\* run() started and the remote is untouched; whatever was deleted or pushed
\* before the error stays deleted or pushed
C26_FailStops ==
  /\ callsOf("setFailed") # {} =>
       /\ pc = "failed"
       /\ callsOf("setFailed") = {Len(calls)}
  /\ failedInReload =>
       /\ Len(calls) = 1
       /\ versions = Digests
       /\ tagDigest = tagDigest0
  /\ \A d \in AllDigests :
       lastMutation(d) # 0 =>
         (d \in versions <=> calls[lastMutation(d)].op = "putManifest")
C26_Witness ==
  /\ callsOf("setFailed") # {}
  /\ callsOf("doDelete") # {}
  /\ \E d \in Range(deleteSet) : d \notin versions
  /\ \E d \in Range(deleteSet) : d \in versions

\* ---------------------------------------------------------------- trims
trimNames == {"trimChildren", "trimExcluded", "trimNewer"}
allTrimsApplied == \A op \in trimNames : callsOf(op) # {}
\* filterSet as reload leaves it from the state the trims started in
filterSetOfReload ==
  reload([newAction(tagDigest0) EXCEPT
            !.excludeTags = IF pc = "trims" THEN {}
                            ELSE matchedExcludeTags(tagDigest0)]).filterSet
sameTrimTwice == lastCall \in trimNames /\ calls'[Len(calls')].op = lastCall

\* C27: once each of the three trims has been applied, in whatever order and
\* however often, filterSet is the one reload produces; and a trim applied
\* right after itself changes nothing in filterSet
C27_TrimsCommute ==
  /\ [](allTrimsApplied => filterSet = filterSetOfReload)
  /\ [][(calls' # calls /\ sameTrimTwice) => filterSet' = filterSet]_vars
C27_Witness ==
  /\ pc = "trimsAgain"
  /\ allTrimsApplied
  /\ calls[1].op = "trimNewer"
  /\ calls[2].op = "trimExcluded"
  /\ excludeTags # {}
  /\ Len(filterSet) = 1
  /\ \E d \in ghDigests : ReferrerTag(d) \in tagsInUse

\* ---------------------------------------------------------------- additions to deleteSet
classifying == pc \in {"deleteByTag", "partialGhost", "keepNtagged", "untagged", "doDelete"}
\* filterSet as the latest reload left it: the remote has not changed since,
\* and the clock it read is the current one if deleteByTag reloaded
filterSetOfLatestReload ==
  Range(reload([State EXCEPT
                  !.now = IF Cardinality(callsOf("reload")) >= 2 THEN now ELSE Now]).filterSet)
reloadsInStep == {i \in (Len(calls) + 1)..Len(calls') : calls'[i].op = "reload"}

\* C28: every digest in deleteSet is in the filterSet the latest reload
\* produced, and a step that does not reload adds to deleteSet only digests
\* that filterSet holds when the step starts
C28_AddedFromFilter ==
  /\ [](classifying => Range(deleteSet) \subseteq filterSetOfLatestReload)
  /\ [][(classifying /\ reloadsInStep = {})
          => Range(deleteSet') \ Range(deleteSet) \subseteq Range(filterSet)]_vars

C28_Witness ==
  /\ pc = "doDelete"
  /\ Cardinality(callsOf("reload")) >= 2
  /\ callsOf("deleteSet.add") # {}
  /\ Len(deleteSet) >= 2
  /\ ghDigests \ filterSetOfLatestReload # {}

\* ---------------------------------------------------------------- reference map after deletion
mentioned == DOMAIN digestUsedBy \cup UNION {digestUsedBy[c] : c \in DOMAIN digestUsedBy}

\* C29: after doDelete no deleted digest is a key of digestUsedBy and none is
\* in the parent set of a remaining key
C29_NoDeletedInMap == afterDoDelete => deleted \cap mentioned = {}

\* ---------------------------------------------------------------- termination of doDelete
\* the referrer tags of the package lead from x back to x
RECURSIVE referrerChain(_, _)
referrerChain(x, n) ==
  IF n = 0 \/ tagDigest0[ReferrerTag(x)] = NoDigest THEN {}
  ELSE {tagDigest0[ReferrerTag(x)]} \cup referrerChain(tagDigest0[ReferrerTag(x)], n - 1)
onCycle(x) == x \in referrerChain(x, NumDigests)

\* C30: doDelete comes to its end; a call of deleteImage either returns at
\* once, with no client call, or adds a digest to the deleted set; and when
\* doDelete has ended every digest of deleteSet is in the deleted set
C30_Terminates ==
  /\ (pc = "doDelete") ~> (pc = "done")
  /\ [][(pc = "deleteImage") =>
          \/ deleted \subseteq deleted' /\ deleted' # deleted
          \/ calls' = calls /\ pc' = "doDelete"]_vars
  /\ [](pc = "done" => Range(deleteSet) \subseteq deleted /\ NoDigest \notin deleted)
C30_Witness ==
  /\ pc = "done"
  /\ \E x \in deleted : onCycle(x)
  /\ \E i \in callsOf("deleteImage") :
       \E j \in callsOf("deletePackageVersion") : j < i /\ calls[j].digest = calls[i].digest

\* ---------------------------------------------------------------- empty index
\* an index manifest whose child list is empty
emptyIndex(d) ==
  /\ getManifestByDigest(d).isIndex
  /\ getManifestByDigest(d).children = <<>>

\* C31: deleteGhostImages moves every index of filterSet that has an empty
\* child list to deleteSet, and deletePartialImages leaves every such index
\* in filterSet and out of deleteSet
C31_EmptyIndex ==
  [][/\ DeleteGhostImages =>
          \A d \in inFilterSet :
            emptyIndex(d) => d \in inDeleteSet' /\ d \notin inFilterSet'
     /\ DeletePartialImages =>
          \A d \in inFilterSet :
            emptyIndex(d) => d \in inFilterSet' /\ d \notin inDeleteSet']_vars
\* deleteGhostImages moved an index with an empty child list and left a digest
C31_Witness ==
  /\ lastCall = "deleteGhostImages"
  /\ \E d \in inDeleteSet : emptyIndex(d)
  /\ inFilterSet # {}
====
